---- MODULE Spec2Model ----
(***************************************************************************)
(* Model of the device callback bridge, the device lifecycle and the       *)
(* streaming decode engine of miniaudio.py.                                *)
(*                                                                         *)
(* Spec        : devices (AbstractDevice, PlaybackDevice, CaptureDevice,   *)
(*               DuplexStream), the registry _callback_data and the        *)
(*               hardware invocations internal_data_callback delivers.     *)
(* SpecCapture : CaptureDevice.data_callback at the level of the bytes of  *)
(*               the buffers it allocates and fills.                       *)
(* SpecStream  : _samples_generator behind stream_file / stream_memory.    *)
(***************************************************************************)
EXTENDS Integers, Sequences, FiniteSets, TLC

\* ------------------------------------------------------------------ bounds
\* Largest framecount of one hardware invocation.
MaxFrames == 2
\* Largest number of items in a payload a routine yields.
MaxPayloadItems == 5
\* Largest number of buffers handed to routines in one behaviour of SpecCapture.
MaxCaptured == 3
\* Largest number of pulls on one stream in one behaviour of SpecStream.
MaxPulls == 4
\* A frames_to_read above the floor of the stream's buffer.
LargeFramesToRead == 20000
\* Largest sample_width handed to _ma_format_from_width.
MaxWidth == 5
\* Largest number of samples handed to DecodedSoundFile.
MaxSamples == 5
\* Largest channel count handed to DecodedSoundFile.
MaxChannels == 3
\* Largest number of frames a whole-file decode produces.
MaxDecodedFrames == 2
\* Largest number of frames of a vorbis file, and the most samples one of them holds.
MaxVorbisFrames == 3
MaxVorbisSamples == 2
\* Bytes of the WAVE header the native library writes (a stand-in for its length).
WavHeaderBytes == 2
\* Largest max_frames handed to WavFileReadStream.
MaxWavFrames == 2
\* Largest number of payloads a producer yields, and of items in one of them.
MaxWavPayloads == 2
MaxWavItems == 2
\* Largest amount asked of read() other than its default.
MaxAmount == 3

\* --------------------------------------------------------- program constants
\* stream_file, stream_memory: the default of frames_to_read.
DefaultFramesToRead == 1024
\* _samples_generator: the least number of frames its buffer is allocated for.
MinBufferFrames == 16384
\* sys.maxsize, by a number above every byte count of the model.
SysMaxsize == 1000000000

\* ------------------------------------------------------------ value spaces
None == "None"
DeviceIds == {"A", "B"}
Routines == {"g1", "g2"}
NotAGenerator == "not_a_generator"
DeviceTypes == {"playback", "capture", "duplex"}
\* (format, channels) pairs handed to the constructors; s24 is a format
\* _decode_ma_format rejects.
DeviceParams == {<<"s16", 2>>, <<"s24", 1>>}
\* (playback_format, playback_channels) pairs handed to DuplexStream.
DuplexPlaybackParams == {<<"u8", 1>>}
ItemSizes == {1, 2}
FrameCounts == 0..MaxFrames

VARIABLES
    object,             \* per device id: "absent", "held" (the application has it), "unreferenced"
    config,             \* per device id: the attributes __init__ stores
    callback_generator, \* per device id: the bound routine or None
    _device,            \* per device id: "unset", "ma_device" or None
    native,             \* per device id: state of the native ma_device
    _callback_data,     \* the registry: ids with an entry
    gen,                \* per routine: "suspended" or "finished"
    last,               \* the operation that ran last and what it did
    heap,               \* the bytearray objects allocated so far, by identity
    received,           \* identities of the buffers sent to routines, in order
    hw_input,           \* the hardware input buffer of the last invocation
    stream,             \* the generator _samples_generator returned, and its locals
    decoder,            \* the native ma_decoder behind it
    chunks,             \* the chunks it yielded, in order
    slast,              \* the last operation on the stream and what it did
    call,               \* the last call of a module-level function and what it did
    vorbis,             \* the generator vorbis_stream_file returned, and its file
    inflight,           \* the data_callback the audio thread is in the middle of
    wav                 \* the WavFileReadStream object and its producer

devVars == <<object, config, callback_generator, _device, native, _callback_data, gen, last>>
memVars == <<heap, received, hw_input>>
strVars == <<stream, decoder, chunks, slast>>
objVars == <<vorbis, inflight, wav>>
callVars == <<call, objVars>>
vars == <<devVars, memVars, strVars, callVars>>

\* ------------------------------------------------------- sample format model
\* _decode_ma_format: whether the format is one it accepts.
DecodeMaFormatOk(fmt) == fmt \in {"f32", "u8", "s16", "s32"}

\* _decode_ma_format: the sample width it returns.
DecodeMaFormatWidth(fmt) ==
    CASE fmt = "f32" -> 4
      [] fmt = "u8"  -> 1
      [] fmt = "s16" -> 2
      [] fmt = "s32" -> 4
      [] OTHER       -> 0

\* ------------------------------------------------------------- record shapes
NoConfig ==
    [type |-> None, format |-> None, sample_width |-> 0, nchannels |-> 0,
     playback_format |-> None, playback_channels |-> 0]

Idle(op, d) ==
    [op |-> op, dev |-> d, routine |-> None, outcome |-> "none", framecount |-> 0,
     payload |-> 0, copied |-> 0, raised |-> "none", nativecall |-> "none"]

\* What resuming a routine can do: yield a payload, end, or fail.
NoPayload(kind) == [kind |-> kind, items |-> 0, itemsize |-> 1]

Outcomes(g) ==
    IF gen[g] = "finished"
    THEN {NoPayload("StopIteration")}
    ELSE {NoPayload("StopIteration"), NoPayload("Exception"), NoPayload("BaseException")}
         \cup [kind : {"yield"}, items : 0..MaxPayloadItems, itemsize : ItemSizes]

\* The routine's state after being resumed with that outcome.
GenAfter(outcome) == IF outcome.kind = "yield" THEN "suspended" ELSE "finished"

\* _bytes_from_generator_samples: the payload viewed as bytes; its length.
BytesFromGeneratorSamples(outcome) == outcome.items * outcome.itemsize

\* Bytes per sample of a format in the native library (the hardware buffers' layout).
NativeBytesPerSample(fmt) ==
    CASE fmt = "u8"  -> 1
      [] fmt = "s16" -> 2
      [] fmt = "s24" -> 3
      [] fmt = "s32" -> 4
      [] fmt = "f32" -> 4
      [] OTHER       -> 0

\* ----------------------------------------------------------- data callbacks
\* What one data_callback did: the binding it leaves, what it raised, the routine it
\* resumed, the bytes of the payload it got and the bytes it moved to the output.
Result(binding, raised, routine, outcome, payload, copied) ==
    [callback_generator |-> binding, raised |-> raised, routine |-> routine,
     outcome |-> outcome, payload |-> payload, copied |-> copied]

\* The largest payload computed without the channel count.
PlaybackMaximumMono(framecount, sample_width, nchannels) == framecount * sample_width

\* PlaybackDevice.data_callback: the largest payload it accepts.
PlaybackMaximum(framecount, sample_width, nchannels) ==
    framecount * sample_width * nchannels

\* PlaybackDevice.data_callback without the size check (as DuplexStream's is).
PlaybackDataCallbackUnchecked(cg, c, framecount, outcome) ==
    IF cg = None
    THEN Result(None, "none", None, "none", 0, 0)
    ELSE CASE outcome.kind = "StopIteration" ->
                Result(None, "none", cg, outcome.kind, 0, 0)
           [] outcome.kind = "Exception" ->
                Result(None, "Exception", cg, outcome.kind, 0, 0)
           [] outcome.kind = "BaseException" ->
                Result(cg, "BaseException", cg, outcome.kind, 0, 0)
           [] OTHER ->
                LET samples_bytes == BytesFromGeneratorSamples(outcome)
                IN  Result(cg, "none", cg, outcome.kind, samples_bytes, samples_bytes)

\* A data_callback that keeps the routine bound whatever resuming it did.
PlaybackDataCallbackNeverUnbinds(cg, c, framecount, outcome) ==
    IF cg = None
    THEN Result(None, "none", None, "none", 0, 0)
    ELSE Result(cg, "none", cg, outcome.kind, 0, 0)

\* PlaybackDevice.data_callback
PlaybackDataCallback(cg, c, framecount, outcome) ==
    IF cg = None
    THEN Result(None, "none", None, "none", 0, 0)
    ELSE CASE outcome.kind = "StopIteration" ->
                Result(None, "none", cg, outcome.kind, 0, 0)
           [] outcome.kind = "Exception" ->
                Result(None, "Exception", cg, outcome.kind, 0, 0)
           [] outcome.kind = "BaseException" ->
                Result(cg, "BaseException", cg, outcome.kind, 0, 0)
           [] OTHER ->
                LET samples_bytes == BytesFromGeneratorSamples(outcome)
                IN  IF samples_bytes > 0
                    THEN IF samples_bytes > PlaybackMaximum(framecount, c.sample_width, c.nchannels)
                         THEN Result(None, "MiniaudioError", cg, outcome.kind, samples_bytes, 0)
                         ELSE Result(cg, "none", cg, outcome.kind, samples_bytes, samples_bytes)
                    ELSE Result(cg, "none", cg, outcome.kind, samples_bytes, 0)

\* buffer_size computed without the channel count.
CaptureBufferSizeMono(sample_width, nchannels, framecount) ==
    sample_width * framecount

\* CaptureDevice.data_callback: the size of the buffer it hands to the routine.
CaptureBufferSize(sample_width, nchannels, framecount) ==
    sample_width * nchannels * framecount

\* CaptureDevice.data_callback that forgets to unbind when the routine ends.
CaptureDataCallbackKeepsEnded(cg, c, framecount, outcome) ==
    IF cg = None
    THEN Result(None, "none", None, "none", 0, 0)
    ELSE CASE outcome.kind = "StopIteration" ->
                Result(cg, "none", cg, outcome.kind, 0, 0)
           [] outcome.kind = "Exception" ->
                Result(None, "Exception", cg, outcome.kind, 0, 0)
           [] outcome.kind = "BaseException" ->
                Result(cg, "BaseException", cg, outcome.kind, 0, 0)
           [] OTHER ->
                \* what the routine yields is not looked at
                Result(cg, "none", cg, outcome.kind, 0, 0)

\* CaptureDevice.data_callback
CaptureDataCallback(cg, c, framecount, outcome) ==
    IF cg = None
    THEN Result(None, "none", None, "none", 0, 0)
    ELSE CASE outcome.kind = "StopIteration" ->
                Result(None, "none", cg, outcome.kind, 0, 0)
           [] outcome.kind = "Exception" ->
                Result(None, "Exception", cg, outcome.kind, 0, 0)
           [] outcome.kind = "BaseException" ->
                Result(cg, "BaseException", cg, outcome.kind, 0, 0)
           [] OTHER ->
                \* what the routine yields is not looked at
                Result(cg, "none", cg, outcome.kind, 0, 0)

\* DuplexStream.data_callback with a bare "except Exception: pass".
DuplexDataCallbackSwallows(cg, c, framecount, outcome) ==
    IF cg = None
    THEN Result(None, "none", None, "none", 0, 0)
    ELSE CASE outcome.kind = "StopIteration" ->
                Result(None, "none", cg, outcome.kind, 0, 0)
           [] outcome.kind = "Exception" ->
                Result(cg, "none", cg, outcome.kind, 0, 0)
           [] outcome.kind = "BaseException" ->
                Result(cg, "BaseException", cg, outcome.kind, 0, 0)
           [] OTHER ->
                LET samples_bytes == BytesFromGeneratorSamples(outcome)
                IN  IF outcome.items > 0
                    THEN Result(cg, "none", cg, outcome.kind, samples_bytes, samples_bytes)
                    ELSE Result(cg, "none", cg, outcome.kind, samples_bytes, 0)

\* DuplexStream.data_callback
DuplexDataCallback(cg, c, framecount, outcome) ==
    IF cg = None
    THEN Result(None, "none", None, "none", 0, 0)
    ELSE CASE outcome.kind = "StopIteration" ->
                Result(None, "none", cg, outcome.kind, 0, 0)
           [] outcome.kind = "Exception" ->
                Result(None, "Exception", cg, outcome.kind, 0, 0)
           [] outcome.kind = "BaseException" ->
                Result(cg, "BaseException", cg, outcome.kind, 0, 0)
           [] OTHER ->
                LET samples_bytes == BytesFromGeneratorSamples(outcome)
                IN  IF outcome.items > 0
                    THEN Result(cg, "none", cg, outcome.kind, samples_bytes, samples_bytes)
                    ELSE Result(cg, "none", cg, outcome.kind, samples_bytes, 0)

\* callback_device.data_callback(...): the method of the device's class.
DataCallback(cg, c, framecount, outcome) ==
    CASE c.type = "playback" -> PlaybackDataCallback(cg, c, framecount, outcome)
      [] c.type = "capture"  -> CaptureDataCallback(cg, c, framecount, outcome)
      [] OTHER               -> DuplexDataCallback(cg, c, framecount, outcome)

\* Bytes the hardware output buffer of one invocation holds.
OutputCapacity(c, framecount) ==
    IF c.type = "duplex"
    THEN framecount * c.playback_channels * NativeBytesPerSample(c.playback_format)
    ELSE framecount * c.nchannels * NativeBytesPerSample(c.format)

\* The device's data_callback run for framecount frames, outcome being what resuming
\* the bound routine does.
data_callback(d, framecount, outcome) ==
    LET r == DataCallback(callback_generator[d], config[d], framecount, outcome)
    IN  /\ callback_generator' = [callback_generator EXCEPT ![d] = r.callback_generator]
        /\ gen' = IF r.routine \in Routines
                  THEN [gen EXCEPT ![r.routine] = GenAfter(outcome)]
                  ELSE gen
        /\ last' = [op |-> "data_callback", dev |-> d, routine |-> r.routine,
                    outcome |-> r.outcome, framecount |-> framecount,
                    payload |-> r.payload, copied |-> r.copied,
                    raised |-> r.raised, nativecall |-> "none"]

\* internal_data_callback: one hardware invocation for device d.
internal_data_callback(d) ==
    /\ native[d] = "started"
    /\ \E framecount \in FrameCounts :
         IF framecount = 0
         THEN /\ last' = Idle("internal_data_callback", d)
              /\ UNCHANGED <<callback_generator, gen>>
         ELSE IF d \notin _callback_data
         THEN /\ last' = [Idle("internal_data_callback", d) EXCEPT
                             !.framecount = framecount, !.raised = "KeyError"]
              /\ UNCHANGED <<callback_generator, gen>>
         ELSE \E outcome \in (IF callback_generator[d] = None
                              THEN {NoPayload("none")}
                              ELSE Outcomes(callback_generator[d])) :
                data_callback(d, framecount, outcome)
    /\ UNCHANGED <<object, config, _device, native, _callback_data, strVars, callVars>>

\* A hardware invocation, its effect on the buffers left aside.
HardwareInvocation(d) == internal_data_callback(d) /\ UNCHANGED memVars

\* ------------------------------------------------------------ device objects
\* PlaybackDevice.__init__, CaptureDevice.__init__, DuplexStream.__init__:
\* result is what ma_device_init gives ("MA_SUCCESS", "MA_ERROR") or "null_backend"
\* when it succeeds on the null backend.
Construct(d) ==
    /\ object[d] = "absent"
    /\ \E type \in DeviceTypes, p \in DeviceParams, pp \in DuplexPlaybackParams,
          result \in {"MA_SUCCESS", "MA_ERROR", "null_backend"} :
         IF ~DecodeMaFormatOk(p[1])
         THEN \* _decode_ma_format raises before anything is registered
              /\ last' = [Idle("__init__", d) EXCEPT !.raised = "ValueError"]
              /\ UNCHANGED <<object, config, callback_generator, _device, native,
                             _callback_data>>
         ELSE /\ config' = [config EXCEPT ![d] =
                    [type |-> type, format |-> p[1],
                     sample_width |-> DecodeMaFormatWidth(p[1]), nchannels |-> p[2],
                     playback_format |-> IF type = "duplex" THEN pp[1] ELSE None,
                     playback_channels |-> IF type = "duplex" THEN pp[2] ELSE 0]]
              /\ _device' = [_device EXCEPT ![d] = "ma_device"]
              /\ _callback_data' = _callback_data \cup {d}
              /\ callback_generator' = [callback_generator EXCEPT ![d] = None]
              /\ native' = [native EXCEPT ![d] =
                                IF result = "MA_ERROR" THEN "uninit" ELSE "stopped"]
              /\ object' = [object EXCEPT ![d] =
                                IF result = "MA_SUCCESS" THEN "held" ELSE "unreferenced"]
              /\ last' = [Idle("__init__", d) EXCEPT
                             !.raised = IF result = "MA_SUCCESS" THEN "none"
                                        ELSE "MiniaudioError",
                             !.nativecall = "ma_device_init"]
    /\ UNCHANGED <<gen, memVars, strVars, callVars>>

\* AbstractDevice.start: "if self.callback_generator" (a generator object is truthy).
AlreadyStartedNever(cg) == FALSE

AlreadyStarted(cg) == cg # None

\* AbstractDevice.start
StartWith(d, callbacks) ==
    /\ object[d] = "held"
    /\ \E callback \in callbacks, result \in {"MA_SUCCESS", "MA_ERROR"} :
         IF AlreadyStarted(callback_generator[d])
         THEN /\ last' = [Idle("start", d) EXCEPT !.routine = callback,
                                                  !.raised = "MiniaudioError"]
              /\ UNCHANGED <<callback_generator, native>>
         ELSE IF callback = NotAGenerator
         THEN /\ last' = [Idle("start", d) EXCEPT !.routine = callback,
                                                  !.raised = "TypeError"]
              /\ UNCHANGED <<callback_generator, native>>
         ELSE /\ callback_generator' = [callback_generator EXCEPT ![d] = callback]
              /\ IF _device[d] = None
                 THEN \* lib.ma_device_start(None): the foreign call rejects the argument
                      /\ last' = [Idle("start", d) EXCEPT !.routine = callback,
                                                          !.raised = "TypeError"]
                      /\ UNCHANGED native
                 ELSE /\ native' = [native EXCEPT ![d] =
                                        IF result = "MA_SUCCESS" THEN "started" ELSE @]
                      /\ last' = [Idle("start", d) EXCEPT
                                     !.routine = callback,
                                     !.nativecall = "ma_device_start",
                                     !.raised = IF result = "MA_SUCCESS" THEN "none"
                                                ELSE "MiniaudioError"]
    /\ UNCHANGED <<object, config, _device, _callback_data, gen, memVars, strVars, callVars>>

\* start() called by the application with one of its routines, or with something
\* that is no generator.
Start(d) == StartWith(d, Routines \cup {NotAGenerator})

\* AbstractDevice.stop: the binding it leaves ("self.callback_generator = None").
StopKeepsBinding(cg) == cg

StopBinding(cg) == None

\* AbstractDevice.stop
Stop(d) ==
    /\ object[d] = "held"
    /\ \E result \in {"MA_SUCCESS", "MA_ERROR"} :
         /\ callback_generator' = [callback_generator EXCEPT ![d] = StopBinding(@)]
         /\ IF _device[d] = None
            THEN \* lib.ma_device_stop(None): the foreign call rejects the argument
                 /\ last' = [Idle("stop", d) EXCEPT !.routine = callback_generator[d],
                                                    !.raised = "TypeError"]
                 /\ UNCHANGED native
            ELSE /\ native' = [native EXCEPT ![d] =
                                   IF result = "MA_SUCCESS" THEN "stopped" ELSE @]
                 /\ last' = [Idle("stop", d) EXCEPT
                                !.routine = callback_generator[d],
                                !.nativecall = "ma_device_stop",
                                !.raised = IF result = "MA_SUCCESS" THEN "none"
                                           ELSE "MiniaudioError"]
    /\ UNCHANGED <<object, config, _device, _callback_data, gen, memVars, strVars, callVars>>

\* The registry emptied.
RegistryCleared(registry, d) == {}

\* AbstractDevice.close: "if id(self) in _callback_data: del _callback_data[id(self)]"
RegistryWithout(registry, d) == registry \ {d}

\* AbstractDevice.close: the state it leaves, given who called it.
CloseBody(d, op) ==
    /\ callback_generator' = [callback_generator EXCEPT ![d] = None]
    /\ IF _device[d] # None
       THEN /\ native' = [native EXCEPT ![d] = "uninit"]
            /\ _device' = [_device EXCEPT ![d] = None]
            /\ last' = [Idle(op, d) EXCEPT !.routine = callback_generator[d],
                                           !.nativecall = "ma_device_uninit"]
       ELSE /\ last' = [Idle(op, d) EXCEPT !.routine = callback_generator[d]]
            /\ UNCHANGED <<native, _device>>
    /\ _callback_data' = RegistryWithout(_callback_data, d)

\* AbstractDevice.close, called by the application
Close(d) ==
    /\ object[d] = "held"
    /\ CloseBody(d, "close")
    /\ UNCHANGED <<object, config, gen, memVars, strVars, callVars>>

\* AbstractDevice.__del__: runs once nothing refers to the object any more, which
\* the registry entry prevents for as long as it exists.
Finalize(d) ==
    /\ object[d] = "held"
    /\ d \notin _callback_data
    /\ CloseBody(d, "__del__")
    /\ object' = [object EXCEPT ![d] = "absent"]
    /\ config' = [config EXCEPT ![d] = NoConfig]
    /\ UNCHANGED <<gen, memVars, strVars, callVars>>

\* ---------------------------------------------------- streaming decode engine
\* What a pull sends: <<>> for next(g) and send(None), <<n>> for send(n).
Nothing == <<>>

Count(n) == <<n>>

NoStream ==
    [pc |-> "none", frames_to_read |-> 0, nchannels |-> 0, format |-> None,
     sample_width |-> 0, allocated_buffer_frames |-> 0, pulls |-> 0]

NoDecoder == [state |-> "none", total |-> 0, position |-> 0, reads |-> 0, uninits |-> 0]

StreamOp(op, sent) ==
    [op |-> op, sent |-> sent, want_frames |-> 0, raised |-> "none", frames |-> 0,
     reads |-> 0]

\* No stream has been asked for.
StreamIdle ==
    /\ stream = NoStream
    /\ decoder = NoDecoder
    /\ chunks = <<>>
    /\ slast = StreamOp("none", Nothing)

Max(a, b) == IF a >= b THEN a ELSE b

Min(a, b) == IF a <= b THEN a ELSE b

\* _samples_generator: allocated_buffer_frames
AllocatedBufferFrames(frames_to_read) == Max(frames_to_read, MinBufferFrames)

\* The default taken whatever was sent.
WantFramesDefault(sent, frames_to_read) == frames_to_read

\* _samples_generator: "(yield ...) or frames_to_read", a sent None or 0 being falsy.
WantFrames(sent, frames_to_read) ==
    IF sent = Nothing \/ sent = Count(0) THEN frames_to_read ELSE sent[1]

\* _samples_generator with its check of want_frames left out.
ExceedsStorageNever(want_frames, allocated_buffer_frames) == FALSE

\* _samples_generator: "if want_frames > allocated_buffer_frames"
ExceedsStorage(want_frames, allocated_buffer_frames) ==
    want_frames > allocated_buffer_frames

\* lib.ma_decoder_read_pcm_frames: the frames it returns from the source's rest.
ReadPcmFrames(dec, want_frames) == Min(want_frames, dec.total - dec.position)

\* The chunk's length computed without the channel count.
ChunkBytesMono(num_frames, sample_width, nchannels) == num_frames * sample_width

\* _samples_generator: the bytes of the decode buffer that make up the chunk.
ChunkBytes(num_frames, sample_width, nchannels) == num_frames * sample_width * nchannels

\* A finally clause that is not there.
DecoderUninitSkipped(dec) == dec

\* _samples_generator: "finally: lib.ma_decoder_uninit(decoder)"
DecoderUninit(dec) == [dec EXCEPT !.state = "uninit", !.uninits = @ + 1]

\* decode_file, decode: the bytes of the buffer they return for a source of total
\* frames, taken from the start of what the native decode produced.
DecodeFileBytes(total, nchannels, sample_width) == total * nchannels * sample_width

\* stream_file, stream_memory: open the decoder, create the generator and run it to
\* its first yield.
StreamOpen ==
    /\ stream.pc = "none"
    /\ decoder.state = "none"
    /\ \E result \in {"MA_SUCCESS", "MA_ERROR"}, fmt \in {"s16", "s24"},
          frames_to_read \in {DefaultFramesToRead, LargeFramesToRead},
          total \in {0, 5, MinBufferFrames + 7, 2 * LargeFramesToRead + 1} :
         IF result # "MA_SUCCESS"
         THEN /\ slast' = [StreamOp("stream_file", Nothing) EXCEPT !.raised = "DecodeError"]
              /\ UNCHANGED <<stream, decoder>>
         ELSE /\ decoder' = [NoDecoder EXCEPT !.state = "open", !.total = total]
              /\ IF ~DecodeMaFormatOk(fmt)
                 THEN \* next(g) raises out of _samples_generator, before its try
                      /\ stream' = [NoStream EXCEPT !.pc = "done"]
                      /\ slast' = [StreamOp("stream_file", Nothing) EXCEPT
                                      !.raised = "ValueError"]
                 ELSE /\ stream' =
                            [pc |-> "suspended", frames_to_read |-> frames_to_read,
                             nchannels |-> 2, format |-> fmt,
                             sample_width |-> DecodeMaFormatWidth(fmt),
                             allocated_buffer_frames |-> AllocatedBufferFrames(frames_to_read),
                             pulls |-> 0]
                      /\ slast' = StreamOp("stream_file", Nothing)
    /\ UNCHANGED <<chunks, devVars, memVars, callVars>>

\* g.send(sent), or next(g) when sent is Nothing: _samples_generator from the yield
\* it is suspended at to its next yield or its end.
StreamResume(sent) ==
    LET want_frames == WantFrames(sent, stream.frames_to_read)
        num_frames == ReadPcmFrames(decoder, want_frames)
        pulled == [stream EXCEPT !.pulls = @ + 1]
    IN  IF stream.pc = "done"
        THEN /\ slast' = [StreamOp("send", sent) EXCEPT !.raised = "StopIteration"]
             /\ stream' = pulled
             /\ UNCHANGED <<decoder, chunks>>
        ELSE IF ExceedsStorage(want_frames, stream.allocated_buffer_frames)
        THEN /\ slast' = [StreamOp("send", sent) EXCEPT
                             !.want_frames = want_frames, !.raised = "MiniaudioError"]
             /\ stream' = [pulled EXCEPT !.pc = "done"]
             /\ decoder' = DecoderUninit(decoder)
             /\ UNCHANGED chunks
        ELSE IF want_frames < 0
        THEN \* the foreign call rejects a negative count for an unsigned argument
             /\ slast' = [StreamOp("send", sent) EXCEPT
                             !.want_frames = want_frames, !.raised = "OverflowError"]
             /\ stream' = [pulled EXCEPT !.pc = "done"]
             /\ decoder' = DecoderUninit(decoder)
             /\ UNCHANGED chunks
        ELSE IF num_frames <= 0
        THEN /\ slast' = [StreamOp("send", sent) EXCEPT
                             !.want_frames = want_frames, !.raised = "StopIteration",
                             !.reads = 1]
             /\ stream' = [pulled EXCEPT !.pc = "done"]
             /\ decoder' = DecoderUninit([decoder EXCEPT !.reads = @ + 1])
             /\ UNCHANGED chunks
        ELSE /\ slast' = [StreamOp("send", sent) EXCEPT
                             !.want_frames = want_frames, !.frames = num_frames,
                             !.reads = 1]
             /\ stream' = pulled
             /\ decoder' = [decoder EXCEPT !.position = @ + num_frames,
                                           !.reads = @ + 1]
             /\ chunks' = Append(chunks,
                              [first |-> decoder.position, frames |-> num_frames,
                               bytes |-> ChunkBytes(num_frames, stream.sample_width,
                                                    stream.nchannels)])

\* A pull by the application.
StreamSend ==
    /\ stream.pc \in {"suspended", "done"}
    /\ stream.format # None
    /\ stream.pulls < MaxPulls
    /\ \E sent \in {Nothing} \cup {Count(n) : n \in {0, -1, 1, 3,
                                        stream.allocated_buffer_frames,
                                        stream.allocated_buffer_frames + 1}} :
         StreamResume(sent)
    /\ UNCHANGED <<devVars, memVars, callVars>>

\* g.close(), or the generator being dropped: GeneratorExit at the yield it is
\* suspended at runs the finally clause.
StreamClose ==
    /\ stream.pc \in {"suspended", "done"}
    /\ stream.format # None
    /\ IF stream.pc = "suspended"
       THEN /\ stream' = [stream EXCEPT !.pc = "done"]
            /\ decoder' = DecoderUninit(decoder)
       ELSE UNCHANGED <<stream, decoder>>
    /\ slast' = StreamOp("close", Nothing)
    /\ UNCHANGED <<chunks, devVars, memVars, callVars>>


\* ------------------------------------------------- vorbis_stream_file
\* All sequences over S of length at most n.
SeqsUpTo(S, n) == UNION {[1..k -> S] : k \in 0..n}

\* The sample frames with the numbers a+1 .. a+n, in order.
Ids(a, n) == [i \in 1..n |-> a + i]

\* The audio thread is in no data_callback.
NoInvocation == [pc |-> "idle", dev |-> None, seen |-> None, framecount |-> 0]

NoVorbis ==
    [pc |-> "none", isfile |-> FALSE, openable |-> FALSE, channels |-> 0,
     frames |-> <<>>, next |-> 1, handle |-> "none", closes |-> 0,
     nreads |-> 0, decoded |-> <<>>, chunks |-> <<>>, ended |-> "no",
     op |-> "none", raised |-> "none"]

\* vorbis_stream_file(filename): a generator function, so the call runs none of it.
\* frames are the vorbis frames of the file: how many samples per channel each holds.
VorbisStreamFile ==
    /\ vorbis.pc = "none"
    /\ \E isfile \in BOOLEAN, openable \in BOOLEAN, channels \in {1, 2},
          frames \in SeqsUpTo(0..MaxVorbisSamples, MaxVorbisFrames) :
         vorbis' = [NoVorbis EXCEPT !.pc = "created", !.isfile = isfile,
                                    !.openable = openable, !.channels = channels,
                                    !.frames = frames, !.op = "vorbis_stream_file"]
    /\ UNCHANGED <<devVars, memVars, strVars, call, inflight, wav>>

\* lib.stb_vorbis_get_frame_short_interleaved: the samples per channel of the next
\* frame of v, 0 when there is none.
GetFrameShortInterleaved(v) ==
    IF v.next <= Len(v.frames) THEN v.frames[v.next] ELSE 0

\* The chunk made of the first read only.
VorbisSamplesFirstOnly(read1, read2) == read1

\* vorbis_stream_file: samples.frombytes(buffer of decode_buffer1), then of
\* decode_buffer2 "if num_samples2 > 0".
VorbisSamples(read1, read2) ==
    IF Len(read2) > 0 THEN read1 \o read2 ELSE read1

\* vorbis_stream_file: "finally: lib.stb_vorbis_close(vorbis)"
VorbisCloseHandle(v) == [v EXCEPT !.handle = "closed", !.closes = @ + 1]

\* One pass of the loop of vorbis_stream_file, from the two reads to the yield or
\* the break.
VorbisIteration(v) ==
    LET num_samples1 == GetFrameShortInterleaved(v)
        v1 == [v EXCEPT !.next = @ + 1, !.nreads = @ + 1,
                        !.decoded = @ \o Ids(Len(v.decoded), num_samples1)]
        num_samples2 == GetFrameShortInterleaved(v1)
        v2 == [v1 EXCEPT !.next = @ + 1, !.nreads = @ + 1,
                         !.decoded = @ \o Ids(Len(v1.decoded), num_samples2)]
        read1 == Ids(Len(v.decoded), num_samples1)
        read2 == Ids(Len(v1.decoded), num_samples2)
    IN  IF num_samples1 + num_samples2 <= 0
        THEN VorbisCloseHandle([v2 EXCEPT !.pc = "done", !.op = "next",
                                          !.ended = "exhausted",
                                          !.raised = "StopIteration"])
        ELSE [v2 EXCEPT !.pc = "suspended", !.op = "next", !.raised = "none",
                        !.chunks = Append(@,
                            [first |-> num_samples1, second |-> num_samples2,
                             samples |-> VorbisSamples(read1, read2),
                             bytes |-> num_samples1 * 2 * v.channels
                                       + (IF num_samples2 > 0
                                          THEN num_samples2 * 2 * v.channels ELSE 0)])]

\* next(g)
VorbisNext ==
    /\ vorbis.pc \in {"created", "suspended"}
    /\ vorbis' =
         IF vorbis.pc = "suspended" THEN VorbisIteration(vorbis)
         ELSE IF ~vorbis.isfile
         THEN [vorbis EXCEPT !.pc = "done", !.op = "next", !.ended = "failed",
                             !.raised = "FileNotFoundError"]
         ELSE IF ~vorbis.openable
         THEN [vorbis EXCEPT !.pc = "done", !.op = "next", !.ended = "failed",
                             !.raised = "DecodeError"]
         ELSE VorbisIteration([vorbis EXCEPT !.handle = "open"])
    /\ UNCHANGED <<devVars, memVars, strVars, call, inflight, wav>>

\* next(g) on the generator that has ended
VorbisNextEnded ==
    /\ vorbis.pc = "done"
    /\ vorbis' = [vorbis EXCEPT !.op = "next", !.raised = "StopIteration"]
    /\ UNCHANGED <<devVars, memVars, strVars, call, inflight, wav>>

\* g.close(), or the generator being dropped: GeneratorExit at the yield it is
\* suspended at; nothing runs when it has not begun or has ended.
VorbisClose ==
    /\ vorbis.pc \in {"created", "suspended", "done"}
    /\ vorbis' =
         IF vorbis.pc = "suspended"
         THEN VorbisCloseHandle([vorbis EXCEPT !.pc = "done", !.op = "close",
                                               !.ended = "closed", !.raised = "none"])
         ELSE [vorbis EXCEPT !.pc = "done", !.op = "close", !.raised = "none",
                             !.ended = IF @ = "no" THEN "closed" ELSE @]
    /\ UNCHANGED <<devVars, memVars, strVars, call, inflight, wav>>

\* ------------------------------------------------- WavFileReadStream
NoWav ==
    [state |-> "none", max_frames |-> 0, nchannels |-> 0, sample_width |-> 0,
     max_bytes |-> 0, bytes_done |-> 0, buffered |-> <<>>,
     payloads |-> <<>>, nextp |-> 1, produced |-> 0,
     out |-> <<>>, emptied |-> FALSE,
     op |-> "none", amount |-> 0, result |-> <<>>, raised |-> "none"]

\* What a producer yields, one payload after the other, before it ends.
WavProducers ==
    SeqsUpTo([kind : {"yield"}, items : 0..MaxWavItems, itemsize : ItemSizes],
             MaxWavPayloads)

\* WavFileReadStream.__init__: "(max_frames * nchannels * self.sample_width) or
\* sys.maxsize", 0 being falsy.
MaxBytes(max_frames, nchannels, sample_width) ==
    IF max_frames * nchannels * sample_width = 0
    THEN SysMaxsize
    ELSE max_frames * nchannels * sample_width

\* WavFileReadStream(pcm_sample_gen, sample_rate, nchannels, ma_output_format,
\* max_frames): the header is bytes 1 .. WavHeaderBytes of the stream.
WavInit ==
    /\ wav.state = "none"
    /\ \E fmt \in {"u8", "s16", "s24"}, nchannels \in {1, 2},
          max_frames \in 0..MaxWavFrames, payloads \in WavProducers :
         IF ~DecodeMaFormatOk(fmt)
         THEN wav' = [NoWav EXCEPT !.op = "__init__", !.raised = "ValueError"]
         ELSE wav' = [NoWav EXCEPT
                         !.state = "open", !.op = "__init__",
                         !.max_frames = max_frames, !.nchannels = nchannels,
                         !.sample_width = DecodeMaFormatWidth(fmt),
                         !.max_bytes = MaxBytes(max_frames, nchannels,
                                                DecodeMaFormatWidth(fmt)),
                         !.payloads = payloads,
                         !.buffered = Ids(0, WavHeaderBytes)]
    /\ UNCHANGED <<devVars, memVars, strVars, call, vorbis, inflight>>

RECURSIVE WavFill(_, _)
\* WavFileReadStream.read: "while len(self.buffered) < amount", taking payloads from
\* the producer until there are enough bytes or it ends.
WavFill(w, amount) ==
    IF Len(w.buffered) >= amount
    THEN w
    ELSE IF w.nextp > Len(w.payloads)
    THEN [w EXCEPT !.bytes_done = SysMaxsize]
    ELSE LET n == BytesFromGeneratorSamples(w.payloads[w.nextp])
         IN  WavFill([w EXCEPT !.buffered = @ \o Ids(WavHeaderBytes + w.produced, n),
                               !.produced = @ + n,
                               !.nextp = @ + 1],
                     amount)

\* The rest of the buffer, with what was returned left in it.
WavRestKeepsAll(buffered, amount) == buffered

\* WavFileReadStream.read: "self.buffered[:amount]"
WavResult(buffered, amount) == SubSeq(buffered, 1, Min(amount, Len(buffered)))

\* WavFileReadStream.read: "self.buffered[amount:]"
WavRest(buffered, amount) == SubSeq(buffered, Min(amount, Len(buffered)) + 1, Len(buffered))

\* WavFileReadStream.read(amount)
WavRead ==
    /\ wav.state = "open"
    /\ \E amount \in (1..MaxAmount) \cup {SysMaxsize} :
         IF wav.bytes_done >= wav.max_bytes
         THEN wav' = [wav EXCEPT !.op = "read", !.amount = amount, !.result = <<>>,
                                 !.emptied = TRUE]
         ELSE LET w == WavFill(wav, amount)
                  result == WavResult(w.buffered, amount)
              IN  wav' = [w EXCEPT !.op = "read", !.amount = amount,
                                   !.result = result,
                                   !.buffered = WavRest(w.buffered, amount),
                                   !.bytes_done = @ + Len(result),
                                   !.out = @ \o result,
                                   !.emptied = @ \/ result = <<>>]
    /\ UNCHANGED <<devVars, memVars, strVars, call, vorbis, inflight>>

\* The state of the objects of this part before any is created.
ObjectsIdle ==
    /\ vorbis = NoVorbis
    /\ inflight = NoInvocation
    /\ wav = NoWav

\* ------------------------------------------------- module-level functions
\* The record of a call: what it was given and what it did.
NoCall ==
    [fn |-> "none", filename |-> <<>>, content |-> "none", adapter |-> None,
     sample_width |-> 0, is_float |-> FALSE, format |-> None,
     len_samples |-> 0, nchannels |-> 0, sample_rate |-> 0, num_frames |-> 0,
     allocated |-> 0, freed |-> 0, copied |-> 0, raised |-> "none"]

Called(fn) == [NoCall EXCEPT !.fn = fn]

\* _ma_format_from_width: the format it returns, or "ValueError" when it raises.
MaFormatFromWidth(sample_width, is_float) ==
    IF is_float THEN "f32"
    ELSE IF sample_width = 1 THEN "u8"
    ELSE IF sample_width = 2 THEN "s16"
    ELSE IF sample_width = 4 THEN "s32"
    ELSE "ValueError"

ma_format_from_width ==
    /\ \E sample_width \in 0..MaxWidth, is_float \in BOOLEAN :
         LET r == MaFormatFromWidth(sample_width, is_float)
         IN  call' = [Called("_ma_format_from_width") EXCEPT
                         !.sample_width = sample_width, !.is_float = is_float,
                         !.format = IF r = "ValueError" THEN None ELSE r,
                         !.raised = IF r = "ValueError" THEN r ELSE "none"]
    /\ UNCHANGED <<devVars, memVars, strVars, objVars>>

\* DecodedSoundFile.__init__: "len(samples) // self.nchannels"
NumFrames(len_samples, nchannels) == len_samples \div nchannels

\* DecodedSoundFile(name, nchannels, sample_rate, sample_width, sample_format, samples)
DecodedSoundFileInit ==
    /\ \E len_samples \in 0..MaxSamples, nchannels \in 0..MaxChannels,
          sample_rate \in {0, 44100} :
         call' = [Called("DecodedSoundFile") EXCEPT
                     !.len_samples = len_samples, !.nchannels = nchannels,
                     !.sample_rate = sample_rate,
                     !.num_frames = IF nchannels = 0 THEN 0
                                    ELSE NumFrames(len_samples, nchannels),
                     !.raised = IF nchannels = 0 \/ sample_rate = 0
                                THEN "ZeroDivisionError" ELSE "none"]
    /\ UNCHANGED <<devVars, memVars, strVars, objVars>>

\* File names, as sequences of characters.
Filenames ==
    {<<"a", ".", "o", "g", "g">>,
     <<"a", ".", "O", "G", "G">>,
     <<"a", ".", "O", "g", "g">>,
     <<"a", ".", "v", "o", "r", "b", "i", "s">>,
     <<"a", ".", "V", "O", "R", "B", "I", "S">>,
     <<"a", ".", "m", "p", "3">>,
     <<"a", ".", "M", "P", "3">>,
     <<"a", ".", "M", "p", "3">>,
     <<"a", ".", "f", "l", "a", "c">>,
     <<"a", ".", "F", "L", "A", "C">>,
     <<"a", ".", "w", "a", "v">>,
     <<"a", ".", "W", "A", "V">>,
     <<"a", ".", "w", "A", "v">>,
     <<"a", ".", "t", "x", "t">>,
     <<"a">>,
     <<>>,
     <<".", "w", "a", "v">>,
     <<".", ".", "w", "a", "v">>,
     <<"a", ".", "w", "a", "v", ".", "t", "x", "t">>,
     <<"a", ".", "t", "x", "t", ".", "w", "a", "v">>,
     <<"d", ".", "w", "a", "v", "/", "a">>,
     <<"d", ".", "x", "/", "a", ".", "m", "p", "3">>,
     <<"w", "a", "v">>,
     <<"a", ".", "w", "a", "v", "e">>,
     <<"a", ".", "o", "g">>,
     <<"a", ".">>,
     <<"a", ".", "m", "p", "3", ".">>,
     <<"/", ".", "o", "g", "g">>,
     <<"d", "/", ".", "f", "l", "a", "c">>,
     <<"a", ".", "w", "a", "v", "/">>,
     <<"a", ".", "m", "p", "4">>,
     <<"a", "w", "a", "v">>,
     <<"a", ".", ".", "w", "a", "v">>,
     <<"a", ".", "f", "l", "a", "c", "/", "b", ".", "O", "G", "G">>}

\* What the files contain; "missing" when there is no such file.
Contents == {"vorbis", "mp3", "flac", "wav", "garbage", "missing"}

\* str.rfind(c): the last index of c in p, 0 when there is none.
RFind(p, c) ==
    LET found == {i \in DOMAIN p : p[i] = c}
    IN  IF found = {} THEN 0 ELSE CHOOSE i \in found : \A j \in found : j <= i

\* os.path.splitext(p)[1]: from the last dot of the last path component, unless only
\* dots precede it there.
SplitextExt(p) ==
    LET sepIndex == RFind(p, "/")
        dotIndex == RFind(p, ".")
    IN  IF dotIndex > sepIndex /\ \E i \in (sepIndex + 1)..(dotIndex - 1) : p[i] # "."
        THEN SubSeq(p, dotIndex, Len(p))
        ELSE <<>>

LowerChar(c) ==
    CASE c = "A" -> "a" [] c = "B" -> "b" [] c = "C" -> "c" [] c = "F" -> "f"
      [] c = "G" -> "g" [] c = "I" -> "i" [] c = "L" -> "l" [] c = "M" -> "m"
      [] c = "O" -> "o" [] c = "P" -> "p" [] c = "R" -> "r" [] c = "S" -> "s"
      [] c = "V" -> "v" [] c = "W" -> "w" [] OTHER -> c

\* The extension compared as it was written.
LowerNot(p) == p

\* str.lower()
Lower(p) == [i \in DOMAIN p |-> LowerChar(p[i])]

\* get_file_info, read_file: the codec whose function the if-chain calls, None when
\* it falls through to the raise.
Dispatch(ext) ==
    IF ext \in {<<".", "o", "g", "g">>, <<".", "v", "o", "r", "b", "i", "s">>} THEN "vorbis"
    ELSE IF ext = <<".", "m", "p", "3">> THEN "mp3"
    ELSE IF ext = <<".", "f", "l", "a", "c">> THEN "flac"
    ELSE IF ext = <<".", "w", "a", "v">> THEN "wav"
    ELSE None

\* get_file_info(filename), read_file(filename)
DispatchFile(fn) ==
    /\ \E filename \in Filenames, content \in Contents :
         LET adapter == Dispatch(Lower(SplitextExt(filename)))
         IN  call' = [Called(fn) EXCEPT
                         !.filename = filename, !.content = content,
                         !.adapter = adapter,
                         !.raised = IF adapter # None /\ content = "missing"
                                    THEN "FileNotFoundError"
                                    ELSE IF adapter # content
                                    THEN "DecodeError" ELSE "none"]
    /\ UNCHANGED <<devVars, memVars, strVars, objVars>>

get_file_info == DispatchFile("get_file_info")

read_file == DispatchFile("read_file")

\* The functions that decode a whole file or buffer of one codec, and the width of
\* the samples they produce.
CodecReaders ==
    {<<"vorbis_read_file", 2>>, <<"vorbis_read", 2>>,
     <<"flac_read_file_s32", 4>>, <<"flac_read_file_s16", 2>>, <<"flac_read_file_f32", 4>>,
     <<"flac_read_s32", 4>>, <<"flac_read_s16", 2>>, <<"flac_read_f32", 4>>,
     <<"mp3_read_file_f32", 4>>, <<"mp3_read_file_s16", 2>>,
     <<"mp3_read_f32", 4>>, <<"mp3_read_s16", 2>>,
     <<"wav_read_file_s32", 4>>, <<"wav_read_file_s16", 2>>, <<"wav_read_file_f32", 4>>,
     <<"wav_read_s32", 4>>, <<"wav_read_s16", 2>>, <<"wav_read_f32", 4>>}

\* lib.free, lib.drflac_free, lib.drmp3_free, lib.drwav_free in a finally clause.
NativeFree(c) == [c EXCEPT !.freed = @ + 1]

\* A reader of one codec: the native decode, then the copy into an array and the
\* DecodedSoundFile inside try, the release in finally. body is what the try block
\* does: "ok", or "MemoryError" when the copy cannot be allocated.
CodecRead ==
    /\ \E reader \in CodecReaders, decoded \in BOOLEAN, frames \in 1..MaxDecodedFrames,
          nchannels \in 1..2, body \in {"ok", "MemoryError"} :
         IF ~decoded
         THEN call' = [Called(reader[1]) EXCEPT !.raised = "DecodeError"]
         ELSE call' = NativeFree(
                        [Called(reader[1]) EXCEPT
                            !.sample_width = reader[2], !.nchannels = nchannels,
                            !.allocated = 1,
                            !.copied = IF body = "ok"
                                       THEN frames * nchannels * reader[2] ELSE 0,
                            !.len_samples = IF body = "ok" THEN frames * nchannels ELSE 0,
                            !.num_frames = IF body = "ok"
                                           THEN NumFrames(frames * nchannels, nchannels)
                                           ELSE 0,
                            !.raised = IF body = "ok" THEN "none" ELSE body])
    /\ UNCHANGED <<devVars, memVars, strVars, objVars>>

\* decode_file, decode: the native decode into a buffer the library allocates, then
\* the copy into an array and the DecodedSoundFile.
DecodeWhole ==
    /\ \E fn \in {"decode_file", "decode"}, fmt \in {"s16", "s24"},
          result \in {"MA_SUCCESS", "MA_ERROR"}, frames \in 0..MaxDecodedFrames,
          nchannels \in 1..2, isfile \in BOOLEAN :
         IF ~DecodeMaFormatOk(fmt)
         THEN call' = [Called(fn) EXCEPT !.format = fmt, !.raised = "ValueError"]
         ELSE IF fn = "decode_file" /\ ~isfile
         THEN call' = [Called(fn) EXCEPT !.format = fmt, !.raised = "FileNotFoundError"]
         ELSE IF result # "MA_SUCCESS"
         THEN call' = [Called(fn) EXCEPT !.format = fmt, !.raised = "DecodeError"]
         ELSE call' = [Called(fn) EXCEPT
                          !.format = fmt, !.sample_width = DecodeMaFormatWidth(fmt),
                          !.nchannels = nchannels, !.allocated = 1,
                          !.copied = DecodeFileBytes(frames, nchannels,
                                                     DecodeMaFormatWidth(fmt)),
                          !.len_samples = frames * nchannels,
                          !.num_frames = NumFrames(frames * nchannels, nchannels)]
    /\ UNCHANGED <<devVars, memVars, strVars, objVars>>

\* ------------------------------------------------------------ specification
Init ==
    /\ object = [d \in DeviceIds |-> "absent"]
    /\ config = [d \in DeviceIds |-> NoConfig]
    /\ callback_generator = [d \in DeviceIds |-> None]
    /\ _device = [d \in DeviceIds |-> "unset"]
    /\ native = [d \in DeviceIds |-> "uninit"]
    /\ _callback_data = {}
    /\ gen = [g \in Routines |-> "suspended"]
    /\ last = Idle("none", None)
    /\ heap = <<>>
    /\ received = <<>>
    /\ hw_input = <<>>
    /\ StreamIdle
    /\ call = NoCall
    /\ ObjectsIdle

Next ==
    \E d \in DeviceIds :
        \/ Construct(d)
        \/ Start(d)
        \/ Stop(d)
        \/ Close(d)
        \/ Finalize(d)
        \/ HardwareInvocation(d)

Spec == Init /\ [][Next]_vars

\* The stream alone: no device exists, no stream has been asked for.
InitStream == Init

NextStream ==
    \/ StreamOpen
    \/ StreamSend
    \/ StreamClose

SpecStream == InitStream /\ [][NextStream]_vars

\* ------------------------------------------- capture, at the level of bytes
\* bytearray(n): a new object of n zero bytes.
NewByteArray(n) == [i \in 1..n |-> 0]

\* ffi.memmove(dst, src, n): dst with its first n bytes taken from src.
Memmove(dst, src, n) == [i \in 1..Len(dst) |-> IF i <= n THEN src[i] ELSE dst[i]]

\* The contents the hardware may present for framecount frames: one sample of
\* NativeBytesPerSample(format) bytes per channel and frame.
HardwareInputs(c, framecount) ==
    LET n == framecount * c.nchannels * NativeBytesPerSample(c.format)
    IN  {[i \in 1..n |-> 255], [i \in 1..n |-> (17 * i) % 256]}

\* CaptureDevice.data_callback, what it does to memory: with a routine bound it
\* allocates a bytearray, fills it from the input and sends it to the routine.
CaptureBuffers(d) ==
    IF last'.op = "data_callback" /\ callback_generator[d] # None
    THEN /\ Len(heap) < MaxCaptured
         /\ \E input \in HardwareInputs(config[d], last'.framecount) :
              LET buffer_size == CaptureBufferSize(config[d].sample_width,
                                                   config[d].nchannels, last'.framecount)
                  data == Memmove(NewByteArray(buffer_size), input, buffer_size)
              IN  /\ heap' = Append(heap, data)
                  /\ received' = Append(received, Len(heap) + 1)
                  /\ hw_input' = input
    ELSE /\ hw_input' = <<>>
         /\ UNCHANGED <<heap, received>>

\* One hardware invocation of the capture device.
CaptureInvocation(d) == internal_data_callback(d) /\ CaptureBuffers(d)

\* A CaptureDevice, constructed and started with a routine.
InitCapture ==
    /\ object = [d \in DeviceIds |-> IF d = "A" THEN "held" ELSE "absent"]
    /\ \E p \in {q \in DeviceParams : DecodeMaFormatOk(q[1])} :
         config = [d \in DeviceIds |->
                     IF d = "A"
                     THEN [type |-> "capture", format |-> p[1],
                           sample_width |-> DecodeMaFormatWidth(p[1]), nchannels |-> p[2],
                           playback_format |-> None, playback_channels |-> 0]
                     ELSE NoConfig]
    /\ callback_generator = [d \in DeviceIds |-> IF d = "A" THEN "g1" ELSE None]
    /\ _device = [d \in DeviceIds |-> IF d = "A" THEN "ma_device" ELSE "unset"]
    /\ native = [d \in DeviceIds |-> IF d = "A" THEN "started" ELSE "uninit"]
    /\ _callback_data = {"A"}
    /\ gen = [g \in Routines |-> "suspended"]
    /\ last = [Idle("start", "A") EXCEPT !.routine = "g1", !.nativecall = "ma_device_start"]
    /\ heap = <<>>
    /\ received = <<>>
    /\ hw_input = <<>>
    /\ StreamIdle
    /\ call = NoCall
    /\ ObjectsIdle

NextCapture ==
    \/ CaptureInvocation("A")
    \/ Start("A")
    \/ Stop("A")

SpecCapture == InitCapture /\ [][NextCapture]_vars

InitCall == Init

NextCall ==
    \/ ma_format_from_width
    \/ DecodedSoundFileInit
    \/ get_file_info
    \/ read_file
    \/ CodecRead
    \/ DecodeWhole

SpecCall == InitCall /\ [][NextCall]_vars

InitVorbis == Init

NextVorbis ==
    \/ VorbisStreamFile
    \/ VorbisNext
    \/ VorbisNextEnded
    \/ VorbisClose

SpecVorbis == InitVorbis /\ [][NextVorbis]_vars

\* ------------------------ a data_callback interleaved with the application
\* data_callback up to and including "if self.callback_generator:". With nothing
\* bound the invocation is over; otherwise the audio thread has passed the check and
\* the application thread may run before it goes on.
CallbackCheck(d) ==
    /\ native[d] = "started"
    /\ d \in _callback_data
    /\ inflight.pc = "idle"
    /\ \E framecount \in 1..MaxFrames :
         IF callback_generator[d] = None
         THEN /\ data_callback(d, framecount, NoPayload("none"))
              /\ UNCHANGED inflight
         ELSE /\ inflight' = [pc |-> "checked", dev |-> d,
                              seen |-> callback_generator[d], framecount |-> framecount]
              /\ UNCHANGED <<callback_generator, gen, last>>
    /\ UNCHANGED <<object, config, _device, native, _callback_data, memVars, strVars,
                   call, vorbis, wav>>

\* data_callback from "self.callback_generator.send(...)" to its end: the attribute
\* is read again, and None has no send: AttributeError, which "except Exception"
\* catches, unbinds on and raises again.
CallbackSend(d) ==
    /\ inflight.pc = "checked"
    /\ inflight.dev = d
    /\ inflight' = NoInvocation
    /\ IF callback_generator[d] = None
       THEN /\ last' = [Idle("data_callback", d) EXCEPT
                           !.framecount = inflight.framecount,
                           !.raised = "AttributeError"]
            /\ UNCHANGED <<callback_generator, gen>>
       ELSE \E outcome \in Outcomes(callback_generator[d]) :
              data_callback(d, inflight.framecount, outcome)
    /\ UNCHANGED <<object, config, _device, native, _callback_data, memVars, strVars,
                   call, vorbis, wav>>

InitRace == Init

NextRace ==
    \/ Construct("A")
    \/ Start("A")
    \/ Stop("A")
    \/ Close("A")
    \/ CallbackCheck("A")
    \/ CallbackSend("A")

SpecRace == InitRace /\ [][NextRace]_vars

InitWav == Init

NextWav ==
    \/ WavInit
    \/ WavRead

SpecWav == InitWav /\ [][NextWav]_vars

\* ------------------------------------------- playback of a decoded stream
\* The generator that stream_file / stream_memory returned, as a routine.
StreamRoutine == "stream"

\* The frame counts the hardware asks for.
StreamFrameCounts ==
    {1, 3, stream.allocated_buffer_frames, stream.allocated_buffer_frames + 1}

\* What the resumed stream did, as the data callback sees it: the array it yielded
\* has one item of sample_width bytes per sample.
StreamOutcome ==
    CASE slast'.raised = "StopIteration" -> NoPayload("StopIteration")
      [] slast'.raised # "none" -> NoPayload("Exception")
      [] OTHER -> [kind |-> "yield", items |-> slast'.frames * stream.nchannels,
                   itemsize |-> stream.sample_width]

\* device.start(stream) on a playback device.
StartStream(d) ==
    /\ stream.format # None
    /\ config[d].type = "playback"
    /\ StartWith(d, {StreamRoutine})

\* A hardware invocation of a device the stream is bound to:
\* "samples = self.callback_generator.send(framecount)" resumes _samples_generator.
StreamCallback(d, framecounts) ==
    /\ native[d] = "started"
    /\ callback_generator[d] = StreamRoutine
    /\ d \in _callback_data
    /\ stream.pulls < MaxPulls
    /\ \E framecount \in framecounts :
         /\ StreamResume(Count(framecount))
         /\ data_callback(d, framecount, StreamOutcome)
    /\ UNCHANGED <<object, config, _device, native, _callback_data, memVars, callVars>>

\* The hardware asking for any of the frame counts.
StreamInvocation(d) == StreamCallback(d, StreamFrameCounts)

InitPlayStream == Init

NextPlayStream ==
    \/ Construct("A")
    \/ StreamOpen
    \/ StartStream("A")
    \/ StreamInvocation("A")
    \/ Stop("A")

SpecPlayStream == InitPlayStream /\ [][NextPlayStream]_vars

\* ------------------------------- a stream played to its end by the hardware
\* The state after "device = PlaybackDevice(); device.start(stream_file(...))" for a
\* source of at most MaxFrames frames.
InitPlayLive ==
    /\ object = [d \in DeviceIds |-> IF d = "A" THEN "held" ELSE "absent"]
    /\ config = [d \in DeviceIds |->
                    IF d = "A"
                    THEN [type |-> "playback", format |-> "s16",
                          sample_width |-> DecodeMaFormatWidth("s16"), nchannels |-> 2,
                          playback_format |-> None, playback_channels |-> 0]
                    ELSE NoConfig]
    /\ callback_generator = [d \in DeviceIds |-> IF d = "A" THEN StreamRoutine ELSE None]
    /\ _device = [d \in DeviceIds |-> IF d = "A" THEN "ma_device" ELSE "unset"]
    /\ native = [d \in DeviceIds |-> IF d = "A" THEN "started" ELSE "uninit"]
    /\ _callback_data = {"A"}
    /\ gen = [g \in Routines |-> "suspended"]
    /\ last = [Idle("start", "A") EXCEPT !.routine = StreamRoutine,
                                         !.nativecall = "ma_device_start"]
    /\ heap = <<>>
    /\ received = <<>>
    /\ hw_input = <<>>
    /\ \E frames_to_read \in {DefaultFramesToRead, LargeFramesToRead},
          total \in 0..MaxFrames :
         /\ stream = [pc |-> "suspended", frames_to_read |-> frames_to_read,
                      nchannels |-> 2, format |-> "s16",
                      sample_width |-> DecodeMaFormatWidth("s16"),
                      allocated_buffer_frames |-> AllocatedBufferFrames(frames_to_read),
                      pulls |-> 0]
         /\ decoder = [NoDecoder EXCEPT !.state = "open", !.total = total]
    /\ chunks = <<>>
    /\ slast = StreamOp("stream_file", Nothing)
    /\ call = NoCall
    /\ ObjectsIdle

\* The hardware asking for between 1 and the stream's capacity frames.
StreamInvocationWithin(d) ==
    StreamCallback(d, {n \in StreamFrameCounts \cup {2} :
                         n >= 1 /\ n <= stream.allocated_buffer_frames})

\* A hardware invocation of a device nothing is bound to.
SilentInvocation(d) ==
    /\ callback_generator[d] = None
    /\ HardwareInvocation(d)

NextPlayLive ==
    \/ StreamInvocationWithin("A")
    \/ SilentInvocation("A")

\* The audio thread of a started device keeps invoking the callback.
SpecPlayLive ==
    InitPlayLive /\ [][NextPlayLive]_vars /\ WF_vars(StreamInvocationWithin("A"))

\* ------------------------------------------------------------------ claims
\* The step just taken was operation op on device d.
Did(op, d) == last'.op = op /\ last'.dev = d

\* C1: on a Playback device an invocation whose routine returns more than
\* framecount * channels * sample_width bytes raises, copies nothing and unbinds
\* the routine; the device stays open, and a start() with a routine on the then
\* unbound device binds that routine.
C1_PlaybackOverflowRejected ==
    [][\A d \in DeviceIds :
        /\ ( /\ Did("data_callback", d)
             /\ config[d].type = "playback"
             /\ last'.payload > last'.framecount * config[d].nchannels * config[d].sample_width )
           => /\ last'.raised = "MiniaudioError"
              /\ last'.copied = 0
              /\ callback_generator'[d] = None
              /\ _device'[d] = "ma_device"
              /\ native'[d] = "started"
              /\ d \in _callback_data'
        /\ ( /\ Did("start", d)
             /\ callback_generator[d] = None
             /\ last'.routine \in Routines )
           => callback_generator'[d] = last'.routine
      ]_vars

C1_Witness ==
    /\ last.op = "data_callback"
    /\ config[last.dev].type = "playback"
    /\ last.payload > last.framecount * config[last.dev].nchannels * config[last.dev].sample_width
    /\ last.raised = "MiniaudioError"
    /\ callback_generator[last.dev] = None
    /\ _device[last.dev] = "ma_device"

\* C2: start() on a device that has a routine bound raises, leaves the binding as it
\* is and makes no native call; a device holds at most one routine at any time.
C2_StartRefusesSecondRoutine ==
    /\ [](\A d \in DeviceIds : callback_generator[d] \in Routines \cup {None})
    /\ [][\A d \in DeviceIds :
            (Did("start", d) /\ callback_generator[d] # None)
            => /\ last'.raised = "MiniaudioError"
               /\ callback_generator'[d] = callback_generator[d]
               /\ last'.nativecall = "none"
               /\ native' = native
         ]_vars

C2_Witness ==
    /\ last.op = "start"
    /\ last.raised = "MiniaudioError"
    /\ last.nativecall = "none"
    /\ last.routine \in Routines
    /\ callback_generator[last.dev] \in Routines \ {last.routine}

\* C3: when the bound routine ends during an invocation the bridge unbinds it without
\* raising; while no routine is bound an invocation resumes nothing and writes
\* nothing, and only start() binds a routine again.
C3_CompletionUnbinds ==
    [][\A d \in DeviceIds :
        /\ (Did("data_callback", d) /\ last'.outcome = "StopIteration")
           => /\ callback_generator'[d] = None
              /\ last'.raised = "none"
              /\ last'.copied = 0
        /\ ( /\ last'.op \in {"data_callback", "internal_data_callback"}
             /\ last'.dev = d
             /\ callback_generator[d] = None )
           => /\ last'.routine = None
              /\ last'.copied = 0
              /\ gen' = gen
              /\ callback_generator'[d] = None
        /\ (callback_generator[d] = None /\ callback_generator'[d] # None)
           => Did("start", d)
      ]_vars

C3_Witness ==
    /\ last.op = "data_callback"
    /\ last.outcome = "StopIteration"
    /\ last.routine \in Routines
    /\ last.raised = "none"
    /\ callback_generator[last.dev] = None

C5_LaterCloseChangesNothing ==
    [][\A d \in DeviceIds :
        ( /\ last'.op \in {"close", "__del__"}
          /\ last'.dev = d
          /\ _device[d] = None )
        => /\ callback_generator' = callback_generator
           /\ _device' = _device
           /\ native' = native
           /\ _callback_data' = _callback_data
           /\ last'.nativecall = "none"
           /\ last'.raised = "none"
      ]_vars

\* C6: once closed, start() binds no routine, and neither start() nor stop() makes a
\* native call or changes the device.
C6_ClosedIsTerminal ==
    [][\A d \in DeviceIds :
        ( /\ last'.op \in {"start", "stop"}
          /\ last'.dev = d
          /\ _device[d] = None )
        => /\ callback_generator'[d] = None
           /\ native' = native
           /\ last'.nativecall = "none"
      ]_vars

\* C7 as stated: the routine bound before stop() is still bound after it.
C7_StopPreservesBinding ==
    [][\A d \in DeviceIds :
        Did("stop", d) => callback_generator'[d] = callback_generator[d]
      ]_vars

\* C7 as amended: stop() unbinds the routine and, when the native stop succeeds,
\* halts delivery; it leaves the device open and registered. close() unbinds too.
C7_StopUnbinds ==
    [][\A d \in DeviceIds :
        /\ Did("stop", d)
           => /\ callback_generator'[d] = None
              /\ _device' = _device
              /\ _callback_data' = _callback_data
              /\ (last'.raised = "none" => native'[d] = "stopped")
        /\ Did("close", d) => callback_generator'[d] = None
      ]_vars

C7_Witness ==
    /\ last.op = "stop"
    /\ last.routine \in Routines
    /\ last.raised = "none"
    /\ callback_generator[last.dev] = None
    /\ _device[last.dev] = "ma_device"
    /\ native[last.dev] = "stopped"

\* C8: on a Duplex device no invocation moves more bytes to the output than
\* framecount * playback_channels * playback sample width, and a larger payload is
\* rejected with an error.
C8_DuplexPayloadBounded ==
    (last.op = "data_callback" /\ config[last.dev].type = "duplex")
    => /\ last.copied <= OutputCapacity(config[last.dev], last.framecount)
       /\ (last.payload > OutputCapacity(config[last.dev], last.framecount)
           => last.raised = "MiniaudioError")

\* C9: on a Capture device with a routine bound, an invocation of n > 0 frames resumes
\* the routine once, with a newly allocated buffer that holds exactly the
\* n * channels * sample_width bytes of the hardware input; no buffer handed over
\* before is changed by a later step.
C9_CaptureDeliversInput ==
    [][/\ \A d \in DeviceIds :
            ( /\ Did("data_callback", d)
              /\ config[d].type = "capture"
              /\ callback_generator[d] # None
              /\ last'.framecount > 0 )
            => /\ last'.routine = callback_generator[d]
               /\ Len(received') = Len(received) + 1
               /\ LET b == received'[Len(received')]
                  IN  /\ b \notin DOMAIN heap
                      /\ b \in DOMAIN heap'
                      /\ heap'[b] = hw_input'
                      /\ Len(heap'[b]) = last'.framecount * config[d].nchannels
                                                          * config[d].sample_width
       /\ \A b \in DOMAIN heap : b \in DOMAIN heap' /\ heap'[b] = heap[b]
       /\ \A i \in DOMAIN received : i \in DOMAIN received' /\ received'[i] = received[i]
      ]_vars

C9_Witness ==
    /\ last.op = "data_callback"
    /\ config[last.dev].type = "capture"
    /\ last.routine \in Routines
    /\ Len(received) >= 2
    /\ heap[received[Len(received)]] = hw_input
    /\ heap[received[1]] # hw_input
    /\ Len(hw_input) = last.framecount * config[last.dev].nchannels
                                       * config[last.dev].sample_width

\* C10: the stream's capacity is fixed when it is created, at
\* max(frames_to_read, 16384); a pull for more frames than that on a live stream
\* raises without a native read and without advancing the decoder; no chunk yielded
\* has more frames than the capacity.
C10_CapacityEnforced ==
    /\ [](stream.pc = "suspended"
          => stream.allocated_buffer_frames = Max(stream.frames_to_read, MinBufferFrames))
    /\ [](\A i \in DOMAIN chunks : chunks[i].frames <= stream.allocated_buffer_frames)
    /\ [][/\ (stream.pc # "none" /\ stream.format # None)
             => stream'.allocated_buffer_frames = stream.allocated_buffer_frames
          /\ ( /\ slast'.op = "send"
               /\ stream'.pulls = stream.pulls + 1
               /\ stream.pc = "suspended"
               /\ slast'.sent # Nothing
               /\ slast'.sent[1] > stream.allocated_buffer_frames )
             => /\ slast'.raised = "MiniaudioError"
                /\ slast'.reads = 0
                /\ decoder'.reads = decoder.reads
                /\ decoder'.position = decoder.position
                /\ chunks' = chunks
         ]_vars

C10_Witness ==
    /\ slast.op = "send"
    /\ slast.sent # Nothing
    /\ slast.sent[1] > stream.allocated_buffer_frames
    /\ slast.raised = "MiniaudioError"
    /\ slast.reads = 0
    /\ Len(chunks) > 0
    /\ decoder.position < decoder.total

\* C11: the decoder of a stream that stream_file / stream_memory returned is closed
\* at most once, and exactly once when the stream has ended, by exhaustion, by
\* abandonment or by an error of a pull; no native read follows the close.
C11_DecoderClosedOnce ==
    /\ [](decoder.uninits <= 1)
    /\ []((stream.format # None /\ stream.pc = "done")
          => (decoder.uninits = 1 /\ decoder.state = "uninit"))
    /\ []((stream.format # None /\ stream.pc = "suspended")
          => (decoder.uninits = 0 /\ decoder.state = "open"))
    /\ [][decoder.state = "uninit"
          => (decoder'.reads = decoder.reads /\ decoder'.position = decoder.position)]_vars

C11_Witness ==
    /\ slast.op = "close"
    /\ stream.format # None
    /\ stream.pc = "done"
    /\ Len(chunks) > 0
    /\ decoder.position < decoder.total
    /\ decoder.uninits = 1

\* C12: when stream_file / stream_memory raises, no decoder is left open.
C12_FailedOpenLeavesNoHandle ==
    (slast.op = "stream_file" /\ slast.raised # "none") => decoder.state # "open"

\* The bytes of the whole decode that chunk i holds: from ChunkStart up to ChunkEnd.
ChunkStart(i) == chunks[i].first * stream.nchannels * stream.sample_width

ChunkEnd(i) == ChunkStart(i) + chunks[i].bytes

\* C13: the chunks are consecutive pieces of the whole decode, the first starting at
\* its start, and when the stream ends by exhaustion the last ends at its end: their
\* concatenation is what decode_file returns for the same source and format.
C13_ChunksConcatenateToWholeDecode ==
    /\ \A i \in DOMAIN chunks :
          /\ chunks[i].bytes > 0
          /\ ChunkStart(i) = (IF i = 1 THEN 0 ELSE ChunkEnd(i - 1))
          /\ ChunkEnd(i) <= DecodeFileBytes(decoder.total, stream.nchannels,
                                            stream.sample_width)
    /\ (slast.op = "send" /\ slast.raised = "StopIteration" /\ slast.reads = 1)
       => (IF chunks = <<>> THEN 0 ELSE ChunkEnd(Len(chunks)))
          = DecodeFileBytes(decoder.total, stream.nchannels, stream.sample_width)

C13_Witness ==
    /\ slast.op = "send"
    /\ slast.raised = "StopIteration"
    /\ slast.reads = 1
    /\ Len(chunks) >= 2
    /\ chunks[1].frames # chunks[2].frames
    /\ ChunkEnd(Len(chunks)) = DecodeFileBytes(decoder.total, stream.nchannels,
                                               stream.sample_width)

\* The step is a pull on a live stream.
LivePull ==
    /\ slast'.op = "send"
    /\ stream'.pulls = stream.pulls + 1
    /\ stream.pc = "suspended"

C19_FailedStartBindsNothing ==
    [][\A d \in DeviceIds :
        ( /\ last'.op = "start"
          /\ last'.dev = d
          /\ last'.raised # "none"
          /\ _device[d] # None
          /\ callback_generator[d] = None )
        => callback_generator'[d] = None
      ]_vars

\* C20: a playback device bound to the stream, both of one format and channel count:
\* an invocation for n frames, 1 <= n <= the stream's capacity, is handed and copies
\* at most n * channels * sample_width bytes, and the overflow error is not raised.
C20_StreamPayloadFits ==
    [][\A d \in DeviceIds :
        ( /\ last'.op = "data_callback"
          /\ last'.dev = d
          /\ callback_generator[d] = StreamRoutine
          /\ config[d].type = "playback"
          /\ config[d].format = stream.format
          /\ config[d].nchannels = stream.nchannels
          /\ last'.framecount >= 1
          /\ last'.framecount <= stream.allocated_buffer_frames )
        => /\ last'.payload <= last'.framecount * config[d].nchannels * config[d].sample_width
           /\ last'.copied <= last'.framecount * config[d].nchannels * config[d].sample_width
           /\ last'.raised # "MiniaudioError"
      ]_vars

C20_Witness ==
    /\ last.op = "data_callback"
    /\ last.routine = StreamRoutine
    /\ last.framecount = 3
    /\ last.copied = 3 * stream.nchannels * stream.sample_width
    /\ config[last.dev].format = stream.format
    /\ config[last.dev].nchannels = stream.nchannels
    /\ callback_generator[last.dev] = StreamRoutine

\* The functions that decode a whole file or buffer.
WholeFileDecoders == {r[1] : r \in CodecReaders} \cup {"decode_file", "decode"}

\* C15: a whole-file decode releases the native buffer it obtained exactly once
\* before it returns or raises, and what it returns holds its own copy of the samples.
C15_NativeBufferReleasedOnce ==
    (call.fn \in WholeFileDecoders /\ call.allocated = 1)
    => /\ call.freed = 1
       /\ call.raised = "none" => call.copied = call.len_samples * call.sample_width

\* C16: _ma_format_from_width returns u8, s16, s32 for the widths 1, 2, 4 when not
\* float and f32 for (4, float), and raises for every other width and for every
\* float request of a width other than 4.
C16_FormatFromWidth ==
    call.fn = "_ma_format_from_width"
    => LET w == call.sample_width
           supported == IF call.is_float THEN w = 4 ELSE w \in {1, 2, 4}
       IN  /\ supported => /\ call.raised = "none"
                           /\ call.format = (CASE call.is_float -> "f32"
                                               [] w = 1 -> "u8"
                                               [] w = 2 -> "s16"
                                               [] OTHER -> "s32")
           /\ ~supported => (call.raised = "ValueError" /\ call.format = None)

\* C17: a DecodedSoundFile that is constructed has num_frames * nchannels equal to
\* its number of samples; a number of samples that is no multiple of the channel
\* count makes the construction fail.
C17_FrameCountExact ==
    call.fn = "DecodedSoundFile"
    => /\ call.raised = "none" => call.num_frames * call.nchannels = call.len_samples
       /\ (call.nchannels > 0 /\ call.len_samples % call.nchannels # 0)
          => call.raised # "none"

\* The upper-case letter of a lower-case one, for the letters of the extensions.
UpperOf(c) ==
    CASE c = "a" -> "A" [] c = "b" -> "B" [] c = "c" -> "C" [] c = "f" -> "F"
      [] c = "g" -> "G" [] c = "i" -> "I" [] c = "l" -> "L" [] c = "m" -> "M"
      [] c = "o" -> "O" [] c = "p" -> "P" [] c = "r" -> "R" [] c = "s" -> "S"
      [] c = "v" -> "V" [] c = "w" -> "W" [] OTHER -> c

\* The file name p ends with the extension e in some mix of cases, after a name
\* that within its path component is more than dots.
HasExtension(p, e) ==
    LET k == Len(p) - Len(e)
    IN  /\ k >= 1
        /\ \A i \in DOMAIN e : p[k + i] \in {e[i], UpperOf(e[i])}
        /\ \E i \in 1..k : /\ p[i] \notin {".", "/"}
                           /\ \A j \in i..k : p[j] # "/"

\* The codec the extension of p stands for, None when it stands for none.
CodecOfExtension(p) ==
    CASE HasExtension(p, <<".", "o", "g", "g">>) -> "vorbis"
      [] HasExtension(p, <<".", "v", "o", "r", "b", "i", "s">>) -> "vorbis"
      [] HasExtension(p, <<".", "m", "p", "3">>) -> "mp3"
      [] HasExtension(p, <<".", "f", "l", "a", "c">>) -> "flac"
      [] HasExtension(p, <<".", "w", "a", "v">>) -> "wav"
      [] OTHER -> None

\* C18: get_file_info and read_file call the function of the codec the file name's
\* extension stands for, whatever the case of its letters and whatever the file
\* holds; for any other extension, or none, they raise and call no codec function.
C18_DispatchByExtension ==
    call.fn \in {"get_file_info", "read_file"}
    => /\ call.adapter = CodecOfExtension(call.filename)
       /\ call.adapter = None => call.raised = "DecodeError"

C18_Witness ==
    /\ call.fn = "read_file"
    /\ call.filename = <<"a", ".", "f", "l", "a", "c", "/", "b", ".", "O", "G", "G">>
    /\ call.content = "flac"
    /\ call.adapter = "vorbis"

\* C23: a hardware invocation for device d resumes no routine but the one bound to d
\* and leaves the binding and the registry entry of every other device as they were;
\* close() of d removes the registry entry of d and no other.
C23_DevicesIsolated ==
    [][\A d \in DeviceIds :
        /\ ( /\ last'.dev = d
             /\ last'.op \in {"data_callback", "internal_data_callback"} )
           => /\ last'.routine \in {None, callback_generator[d]}
              /\ \A g \in Routines : gen'[g] # gen[g] => g = callback_generator[d]
              /\ \A e \in DeviceIds \ {d} :
                    /\ callback_generator'[e] = callback_generator[e]
                    /\ (e \in _callback_data') = (e \in _callback_data)
        /\ (last'.dev = d /\ last'.op = "close")
           => _callback_data' = _callback_data \ {d}
      ]_vars

C23_Witness ==
    /\ last.op = "data_callback"
    /\ last.dev = "A"
    /\ last.routine = "g1"
    /\ last.outcome = "StopIteration"
    /\ callback_generator["A"] = None
    /\ callback_generator["B"] = "g2"
    /\ native["B"] = "started"
    /\ _callback_data = {"A", "B"}

\* C24: the registry holds entries only of devices whose construction succeeded and
\* that have not been closed; a constructor that raises leaves no entry.
C24_RegistryOnlyLiveDevices ==
    \A d \in _callback_data : object[d] = "held" /\ _device[d] = "ma_device"

\* C21: a started playback device bound to the stream of a finite source, the
\* hardware asking for between 1 and capacity frames each time, comes to have no
\* routine bound and the decoder closed; an invocation of the device with nothing
\* bound resumes nothing.
C21_StreamPlaysToEnd ==
    /\ (callback_generator["A"] = StreamRoutine)
         ~> (callback_generator["A"] = None /\ decoder.state = "uninit")
    /\ [][(callback_generator["A"] = None /\ last'.op = "data_callback")
          => (last'.routine = None /\ UNCHANGED strVars)]_vars
    /\ [](callback_generator["A"] = None => (stream.pc = "done" /\ decoder.uninits = 1))

C21_Witness ==
    /\ last.op = "data_callback"
    /\ last.dev = "A"
    /\ last.routine = StreamRoutine
    /\ last.outcome = "StopIteration"
    /\ callback_generator["A"] = None
    /\ decoder.state = "uninit"
    /\ decoder.position = decoder.total
    /\ Len(chunks) >= 2

RECURSIVE Flatten(_)
\* The sample frames of the chunks, one chunk after the other.
Flatten(cs) == IF cs = <<>> THEN <<>> ELSE Head(cs).samples \o Flatten(Tail(cs))

\* C22: the vorbis stream reads twice per iteration; each chunk holds the frames of
\* the first read followed by those of the second, its length the sum of the two; all
\* chunks together are the frames of all reads in order; the stream ends at the first
\* iteration whose two reads both return nothing, and the file is then closed once.
C22_VorbisTwoReadsPerChunk ==
    /\ vorbis.closes <= 1
    /\ Flatten(vorbis.chunks) = vorbis.decoded
    /\ vorbis.decoded = Ids(0, Len(vorbis.decoded))
    /\ \A i \in DOMAIN vorbis.chunks :
          LET c == vorbis.chunks[i]
          IN  /\ c.first + c.second > 0
              /\ Len(c.samples) = c.first + c.second
              /\ c.bytes = (c.first + c.second) * 2 * vorbis.channels
    /\ vorbis.pc = "suspended"
       => /\ vorbis.nreads = 2 * Len(vorbis.chunks)
          /\ vorbis.handle = "open"
    /\ vorbis.ended = "exhausted"
       => /\ vorbis.nreads = 2 * (Len(vorbis.chunks) + 1)
          /\ \A k \in {vorbis.next - 2, vorbis.next - 1} :
                k \in DOMAIN vorbis.frames => vorbis.frames[k] = 0
          /\ vorbis.handle = "closed"
          /\ vorbis.closes = 1
    /\ vorbis.handle = "open" => vorbis.pc = "suspended"

C22_Witness ==
    /\ vorbis.ended = "exhausted"
    /\ Len(vorbis.chunks) = 2
    /\ vorbis.chunks[1].first = 0
    /\ vorbis.chunks[1].second = 2
    /\ vorbis.chunks[2].first = 1
    /\ vorbis.chunks[2].second = 0
    /\ vorbis.closes = 1

\* C25: an invocation that found a routine bound, whatever stop() or close() the
\* application runs before it goes on, resumes that routine or nothing, and raises
\* no error for the binding having been cleared under it.
C25_InvocationKeepsItsBinding ==
    [][\A d \in DeviceIds :
        (inflight.pc = "checked" /\ inflight.dev = d /\ inflight'.pc = "idle")
        => /\ last'.raised # "AttributeError"
           /\ last'.routine \in {None, inflight.seen}
      ]_vars

RECURSIVE PayloadBytes(_)
\* The bytes of all the payloads of a producer.
PayloadBytes(ps) ==
    IF ps = <<>> THEN 0 ELSE Head(ps).items * Head(ps).itemsize + PayloadBytes(Tail(ps))

\* C26: with max_frames = 0 and amounts of at least 1, a read returns at most amount
\* bytes; what the reads have returned is, byte for byte and in order, a prefix of the
\* header followed by the payloads, and all of it once a read has returned nothing;
\* after such a read every read returns nothing.
C26_WavStreamIsHeaderThenPayloads ==
    (wav.state = "open" /\ wav.max_frames = 0)
    => /\ Len(wav.result) <= wav.amount
       /\ wav.out = Ids(0, Len(wav.out))
       /\ wav.out \o wav.buffered = Ids(0, WavHeaderBytes + wav.produced)
       /\ wav.emptied
          => /\ wav.nextp > Len(wav.payloads)
             /\ wav.out = Ids(0, WavHeaderBytes + PayloadBytes(wav.payloads))
             /\ wav.result = <<>>
       /\ (wav.op = "read" /\ ~wav.emptied) => wav.result # <<>>

C26_Witness ==
    /\ wav.state = "open"
    /\ wav.max_frames = 0
    /\ wav.emptied
    /\ wav.amount = 1
    /\ Len(wav.payloads) = 2
    /\ PayloadBytes(wav.payloads) >= 3
    /\ Len(wav.out) = WavHeaderBytes + PayloadBytes(wav.payloads)

\* C27: with max_frames > 0 the bytes returned after the header never exceed
\* max_frames * nchannels * sample_width.
C27_WavDataWithinAnnouncedSize ==
    (wav.state = "open" /\ wav.max_frames > 0)
    => Len(wav.out) - WavHeaderBytes <= wav.max_frames * wav.nchannels * wav.sample_width

====
